---- MODULE Spec2Model ----
(***************************************************************************)
(* Model of app/main.py: the in-memory registries of the signaling server  *)
(* (active_rooms, websocket_connections, user_rooms), the websocket        *)
(* endpoint with its message handlers, and the REST room endpoints.        *)
(*                                                                         *)
(* The server runs on one asyncio event loop: code between two awaits is   *)
(* atomic, and another task may run whenever a task is suspended in        *)
(* receive_text or in send_text.  One step of the model is therefore one   *)
(* task running from its current suspension point up to and including its  *)
(* next successful send_text (or to the end of its handler).  A send_text  *)
(* may raise instead (the transport is closed or the write fails); it then *)
(* raises at once and does not suspend.                                    *)
(***************************************************************************)
EXTENDS Integers, Sequences, FiniteSets, TLC

Users == {"A", "B", "C"}
RoomIds == {"abc", "xyz"}
Admins == {"admin"}
Tasks == Users \cup Admins

SignalTypes == {"offer", "answer", "ice-candidate"}
Payloads == {"X", "Y"}

\* how many tasks can be suspended in a send_text at the same time
MaxInFlight == 2

\* to how many users send_text can raise during one run of a task
MaxFailing == 1

None == "none"
NoMsg == [type |-> "none"]

VARIABLES
    active_rooms,           \* room id -> the CallRoom object under that key
    websocket_connections,  \* the user ids that are keys of the dict
    user_rooms,             \* user id -> room id (None: key absent)
    task                    \* per task: where it is suspended, and its locals

vars == <<active_rooms, websocket_connections, user_rooms, task>>

----------------------------------------------------------------------------
\* Sequences

Range(s) == {s[k] : k \in 1..Len(s)}

Count(s, x) == Cardinality({k \in 1..Len(s) : s[k] = x})

IndexOf(s, x) ==
    LET K == {k \in 1..Len(s) : s[k] = x}
    IN  CHOOSE k \in K : \A m \in K : k <= m

\* list.remove(x): delete the first occurrence
ListRemove(s, x) ==
    LET k == IndexOf(s, x)
    IN  [m \in 1..(Len(s) - 1) |-> IF m < k THEN s[m] ELSE s[m + 1]]

\* list.append(x)
ListAppend(s, x) == Append(s, x)

----------------------------------------------------------------------------
\* CallRoom objects
\*
\* Every change of a CallRoom's list is made on the object that
\* active_rooms holds at that moment, in the same atomic run that fetched
\* it (app/main.py 90-93 and 147-149).  An object that has been deleted from
\* active_rooms is therefore never changed again, and a suspended task that
\* still refers to it sees the list it had when it was deleted.  So a task's
\* local `room` is either Attached (the object now under the key room_id) or
\* Detached(list).

\* key absent from active_rooms
Absent == [present |-> FALSE, participants |-> <<>>, fresh |-> FALSE]

\* CallRoom(room_id=..., created_at=...): participants defaults to a new [].
\* fresh is history: TRUE for an object made by create_room that nobody joined.
CallRoom(byCreate) == [present |-> TRUE, participants |-> <<>>, fresh |-> byCreate]

NoRoom == [att |-> FALSE, participants |-> <<>>]
Attached == [att |-> TRUE, participants |-> <<>>]
Detached(plist) == [att |-> FALSE, participants |-> plist]

IdleLocals(pc) ==
    [pc |-> pc, ctx |-> "none", user |-> None, room_id |-> None, room |-> NoRoom,
     i |-> 0, msg |-> NoMsg, excl |-> None, del_id |-> None, copy |-> <<>>, j |-> 0,
     sent |-> <<>>, stayed |-> {}]

\* room.participants, for the task's local room
Participants(ar, t) ==
    IF t.room.att THEN ar[t.room_id].participants ELSE t.room.participants

\* participants that have a connection now
Live(c, plist) == {p \in Range(plist) : p \in c.wc}

----------------------------------------------------------------------------
\* Frames

\* a message dict's "participants" entry is the list object room.participants
RoomList == "room.participants"

\* json.dumps(message): the text is fixed when it is made, with the list
\* written out as it is now
json_dumps(message, plist) ==
    IF "participants" \in DOMAIN message
    THEN [message EXCEPT !.participants = plist]
    ELSE message

----------------------------------------------------------------------------
\* The run of one task between two suspension points.
\* A context c holds the dicts as the running task sees and changes them
\* (ar, wc, ur), the users to whom a send_text raises in this run (brk), the
\* task's locals (t), the
\* objects deleted from active_rooms in this run (del), the frames sent in
\* this run (out) and the calls that have returned in this run (ev).

Ctx(self, fails) ==
    [ar |-> active_rooms, wc |-> websocket_connections, ur |-> user_rooms,
     brk |-> fails, t |-> task[self], del |-> [r \in RoomIds |-> Absent],
     out |-> <<>>, ev |-> <<>>]

\* the record of a call that returns (op) or raises (err): its locals, the
\* frame it sent to its own user (uni), and the dicts as it leaves them
Ev(op, c, err, uni) ==
    [op |-> op, err |-> err, uni |-> uni, ctx |-> c.t.ctx, user |-> c.t.user,
     room_id |-> c.t.room_id, msg |-> c.t.msg, excl |-> c.t.excl, sent |-> c.t.sent,
     stayed |-> c.t.stayed, del_id |-> c.t.del_id, copy |-> c.t.copy,
     ar |-> c.ar, wc |-> c.wc, ur |-> c.ur]

Emit(c, op, err, uni) == [c EXCEPT !.ev = Append(@, Ev(op, c, err, uni))]

\* send_text has delivered frame to user_id
Sent(c, user_id, frame) == [c EXCEPT !.out = Append(@, [to |-> user_id, frame |-> frame])]

\* the handler or the endpoint is over: the task waits in pc with no locals
Finish(c, pc) == [c EXCEPT !.t = IdleLocals(pc)]

\* del active_rooms[room_id], the key being present: the object lives on for
\* the tasks that refer to it
DelRoom(c, room_id) ==
    [c EXCEPT !.ar[room_id] = Absent,
              !.del[room_id] = c.ar[room_id],
              !.t.room = IF @.att /\ c.t.room_id = room_id
                         THEN Detached(c.ar[room_id].participants) ELSE @]

RECURSIVE BroadcastLoop(_)
RECURSIVE cleanup_user(_, _, _)
RECURSIVE DeleteLoop(_)

\* app/main.py 223-224: del active_rooms[room_id]
DeleteErase(c) ==
    IF ~c.ar[c.t.del_id].present
    THEN Finish(Emit(c, "delete_room", "KeyError", NoMsg), "idle")
    ELSE Finish(Emit(DelRoom(c, c.t.del_id), "delete_room", "none", NoMsg), "idle")

\* app/main.py 220-221: for participant_id in room.participants.copy()
DeleteLoop(c) ==
    IF c.t.j > Len(c.t.copy)
    THEN DeleteErase(c)
    ELSE cleanup_user(c, c.t.copy[c.t.j], "del_cleanup")

\* app/main.py 219-220: room = active_rooms[room_id]; the copy of its list
DeleteAfterClosed(c) ==
    IF ~c.ar[c.t.del_id].present
    THEN Finish(Emit(c, "delete_room", "KeyError", NoMsg), "idle")
    ELSE DeleteLoop([c EXCEPT !.t.copy = c.ar[c.t.del_id].participants,
                               !.t.j = 1, !.t.room = NoRoom])

\* cleanup_user has returned to its caller
CleanupReturn(c) ==
    LET c1 == Emit(c, "cleanup_user", "none", NoMsg)
    IN  IF c.t.ctx = "del_cleanup"
        THEN DeleteLoop([c1 EXCEPT !.t.j = @ + 1, !.t.room = NoRoom])
        ELSE Finish(c1, "closed")

\* cleanup_user has raised: it ends its caller too
CleanupRaise(c) ==
    LET c1 == Emit(c, "cleanup_user", "KeyError", NoMsg)
    IN  IF c.t.ctx = "del_cleanup"
        THEN Finish(Emit(c1, "delete_room", "KeyError", NoMsg), "idle")
        ELSE Finish(c1, "closed")

\* cleanup_user without lines 162-163
KeepEmptyRoom(c) == c

\* app/main.py 162-163: if not room.participants: del active_rooms[room_id]
RemoveEmptyRoom(c) ==
    IF Participants(c.ar, c.t) = <<>>
    THEN DelRoom(c, c.t.room_id)
    ELSE c

\* app/main.py 166-167: if user_id in user_rooms: del user_rooms[user_id]
ForgetRoom(c) == [c EXCEPT !.ur[c.t.user] = None]

\* app/main.py 161-167: the rest of cleanup_user after its broadcast
CleanupFinish(c) ==
    IF Participants(c.ar, c.t) = <<>> /\ ~c.ar[c.t.room_id].present
    THEN CleanupRaise(c)
    ELSE CleanupReturn(ForgetRoom(RemoveEmptyRoom(c)))

\* app/main.py 108-119: the room-joined frame, to the joiner alone
JoinFinish(c) ==
    LET u == c.t.user
        frame == json_dumps([type |-> "room-joined", room_id |-> c.t.room_id,
                             participants |-> RoomList],
                            Participants(c.ar, c.t))
    IN  IF u \notin c.wc
        THEN Finish(Emit(c, "join_room", "none", NoMsg), "recv")
        ELSE IF u \in c.brk
        THEN \* send_text raises; websocket_endpoint 57-59 runs cleanup_user
             cleanup_user(Emit(c, "join_room", "send", NoMsg), u, "cleanup")
        ELSE Finish(Emit(Sent(c, u, frame), "join_room", "none", frame), "recv")

\* what follows the call of broadcast_to_room, by caller
AfterBroadcast(c) ==
    LET c1 == Emit(c, "broadcast_to_room", "none", NoMsg)
    IN  CASE c.t.ctx = "join" -> JoinFinish(c1)
          [] c.t.ctx = "fwd" -> Finish(Emit(c1, "forward", "none", NoMsg), "recv")
          [] c.t.ctx \in {"cleanup", "del_cleanup"} -> CleanupFinish(c1)
          [] c.t.ctx = "closed_bc" -> DeleteAfterClosed(c1)

\* app/main.py 130-131: the list iterator's next index that is sent to; a
\* participant that is excluded, or not a key of websocket_connections, is
\* passed over, and so is one whose send raises (133-135).  0: the list is
\* exhausted.
NextRecipient(plist, i, excl, wc, brk) ==
    LET K == {k \in i..Len(plist) :
                 plist[k] # excl /\ plist[k] \in wc /\ plist[k] \notin brk}
    IN  IF K = {} THEN 0 ELSE CHOOSE k \in K : \A m \in K : k <= m

\* app/main.py 130-135: the loop, run up to and including its next send
BroadcastLoop(c) ==
    LET plist == Participants(c.ar, c.t)
        k == NextRecipient(plist, c.t.i, c.t.excl, c.wc, c.brk)
        last == IF k = 0 THEN Len(plist) ELSE k
        raised == {plist[m] : m \in {n \in c.t.i..last :
                      plist[n] # c.t.excl /\ plist[n] \in c.wc /\ plist[n] \in c.brk}}
        c1 == [c EXCEPT !.t.stayed = @ \ raised]
    IN  IF k = 0
        THEN AfterBroadcast(c1)
        ELSE Sent([c1 EXCEPT !.t.i = k + 1, !.t.sent = Append(@, plist[k])],
                  plist[k], c.t.msg)

\* app/main.py 122-128: the caller's context ctx says where to go on after
broadcast_to_room(c, room_id, message, exclude_user, ctx) ==
    LET c1 == [c EXCEPT !.t.ctx = ctx, !.t.room_id = room_id, !.t.excl = exclude_user,
                        !.t.sent = <<>>, !.t.msg = NoMsg, !.t.stayed = {}]
    IN  IF ~c.ar[room_id].present
        THEN AfterBroadcast(c1)
        ELSE BroadcastLoop(
                 [c1 EXCEPT !.t.pc = "bcast", !.t.room = Attached, !.t.i = 1,
                            !.t.msg = json_dumps(message, c.ar[room_id].participants),
                            !.t.stayed = Live(c, c.ar[room_id].participants)])

\* cleanup_user announcing a user who was in no list to a connected user
AnnounceAbsent(c) ==
    LET to == c.wc \ {c.t.user}
    IN  IF to = {}
        THEN CleanupReturn(ForgetRoom(c))
        ELSE CleanupReturn(ForgetRoom(
                 Sent(c, CHOOSE v \in to : TRUE,
                      [type |-> "user-left", user_id |-> c.t.user])))

\* app/main.py 145-148, 166-167: one of the tests fails (no user_rooms entry,
\* the room is gone, the user is not in its list): nothing is removed or
\* announced, only the user_rooms entry goes
CleanupAbsent(c) == CleanupReturn(ForgetRoom(c))

\* app/main.py 141-142: if user_id in websocket_connections: del ...
Unregister(c, user_id) == [c EXCEPT !.wc = @ \ {user_id}]

\* app/main.py 138-159: cleanup_user up to its broadcast
cleanup_user(c, user_id, ctx) ==
    LET c1 == [Unregister(c, user_id) EXCEPT
                   !.t.user = user_id, !.t.ctx = ctx,
                   !.t.room_id = c.ur[user_id], !.t.room = NoRoom, !.t.msg = NoMsg,
                   !.t.sent = <<>>, !.t.stayed = {}, !.t.excl = None]
        room_id == c.ur[user_id]
    IN  IF /\ room_id # None
           /\ c.ar[room_id].present
           /\ user_id \in Range(c.ar[room_id].participants)
        THEN broadcast_to_room(
                 [c1 EXCEPT !.ar[room_id].participants = ListRemove(@, user_id)],
                 room_id,
                 [type |-> "user-left", user_id |-> user_id, participants |-> RoomList],
                 None, ctx)
        ELSE CleanupAbsent(c1)

\* app/main.py 87-88: if room_id not in active_rooms: active_rooms[room_id] = CallRoom(...)
EnsureRoom(c, room_id) ==
    IF ~c.ar[room_id].present
    THEN [c EXCEPT !.ar[room_id] = CallRoom(FALSE)]
    ELSE c

\* join_room without the test of line 92
AlwaysNewJoin(c, user_id, room_id) == TRUE

\* app/main.py 92: if user_id not in room.participants
IsNewJoin(c, user_id, room_id) == user_id \notin Range(c.ar[room_id].participants)

\* app/main.py 93-94: the append to the list, and the user's room mapping
AddParticipant(c, user_id, room_id) ==
    [c EXCEPT !.ar[room_id].participants = ListAppend(@, user_id),
              !.ar[room_id].fresh = FALSE,
              !.ur[user_id] = room_id]

\* app/main.py 88: CallRoom(room_id=None, ...) fails validation (room_id: str);
\* the error leaves the handler and websocket_endpoint 57-59 runs cleanup_user
JoinInvalid(c, user_id) ==
    cleanup_user(Emit([c EXCEPT !.t.user = user_id], "join_room", "ValidationError", NoMsg),
                 user_id, "cleanup")

\* app/main.py 85-105: join_room up to its broadcast
join_room(c, user_id, room_id) ==
    LET c1 == IF room_id = None THEN c
              ELSE EnsureRoom([c EXCEPT !.t.user = user_id, !.t.room_id = room_id],
                              room_id)
    IN  IF room_id = None
        THEN JoinInvalid(c, user_id)
        ELSE IF IsNewJoin(c1, user_id, room_id)
        THEN broadcast_to_room(
                 AddParticipant(c1, user_id, room_id),
                 room_id,
                 [type |-> "user-joined", user_id |-> user_id, participants |-> RoomList],
                 user_id, "join")
        ELSE Finish(Emit(c1, "join_room", "none", NoMsg), "recv")

\* a frame without a room to go to ends its handler by raising
DropRaises(c) == cleanup_user(Emit(c, "forward", "raised", NoMsg), c.t.user, "cleanup")

\* app/main.py 73: the test fails: nothing is done, the handler returns
DropSilently(c) == Finish(Emit(c, "forward", "dropped", NoMsg), "recv")

\* app/main.py 70-82: offer, answer and ice-candidate go to the sender's room
forward(c, user_id, msg_type, data) ==
    LET room_id == c.ur[user_id]
        c1 == [c EXCEPT !.t.user = user_id, !.t.room_id = room_id]
    IN  IF room_id # None /\ c.ar[room_id].present
        THEN broadcast_to_room(
                 c1, room_id,
                 [type |-> msg_type, data |-> data, from_user |-> user_id],
                 user_id, "fwd")
        ELSE DropSilently(c1)

\* app/main.py 62-82: message_data is a dict
handle_signaling_message(c, user_id, message_data) ==
    LET msg_type == message_data.type
    IN  IF msg_type = "join-room"
        THEN join_room(c, user_id, message_data.room_id)
        ELSE IF msg_type \in SignalTypes
        THEN forward(c, user_id, msg_type, message_data.data)
        ELSE Finish(c, "recv")

\* app/main.py 209-216: delete_room up to its broadcast of room-closed
delete_room(c, room_id) ==
    LET c1 == [c EXCEPT !.t.del_id = room_id]
    IN  IF ~c.ar[room_id].present
        THEN Finish(Emit(c1, "delete_room", "HTTP404", NoMsg), "idle")
        ELSE broadcast_to_room(c1, room_id, [type |-> "room-closed"], None, "closed_bc")

\* app/main.py 171-178: room_id is a new uuid4
create_room(c, room_id) == [c EXCEPT !.ar[room_id] = CallRoom(TRUE)]

\* app/main.py 181-193: 404, or the room's participants and their number
get_room(room_id) ==
    IF ~active_rooms[room_id].present
    THEN [status |-> 404]
    ELSE [status |-> 200, room_id |-> room_id,
          participants |-> active_rooms[room_id].participants,
          participant_count |-> Len(active_rooms[room_id].participants)]

\* app/main.py 196-206
list_rooms ==
    {[room_id |-> r, participant_count |-> Len(active_rooms[r].participants)] :
        r \in {x \in RoomIds : active_rooms[x].present}}

----------------------------------------------------------------------------
\* The inbound frames of the model (already parsed by json.loads)

JoinFrames(rooms) == [type : {"join-room"}, room_id : rooms]

SignalFrames == [type : SignalTypes, data : Payloads]

OtherFrames == [type : {"ping"}]

\* join-room without room_id: message_data.get("room_id") is None
BadJoinFrames == [type : {"join-room"}, room_id : {None}]

----------------------------------------------------------------------------
\* Steps

\* history kept by a task inside broadcast_to_room: who has been a connected
\* participant of the iterated room during all of the call
Track(c, tk) ==
    [q \in Tasks |->
        [tk[q] EXCEPT
            !.stayed = IF tk[q].pc = "bcast"
                       THEN @ \cap Live(c, Participants(c.ar, tk[q])) ELSE @]]

\* a task whose room was deleted from active_rooms in this step keeps the object
Keep(c, t) ==
    IF t.room.att /\ c.del[t.room_id].present
    THEN [t EXCEPT !.room = Detached(c.del[t.room_id].participants)]
    ELSE t

\* the tasks suspended in a send_text
InFlight == Cardinality({q \in Tasks : task[q].pc = "bcast"})

\* the run c of task self fits the bound on suspended tasks
Allowed(c, self) ==
    (c.t.pc = "bcast" /\ task[self].pc # "bcast") => InFlight < MaxInFlight

Commit(c, self) ==
    /\ Allowed(c, self)
    /\ task' = Track(c, [q \in Tasks |-> IF q = self THEN c.t ELSE Keep(c, task[q])])
    /\ active_rooms' = c.ar
    /\ websocket_connections' = c.wc
    /\ user_rooms' = c.ur

\* the sets of users to whom send_text may raise during one run
FailSets == {F \in SUBSET websocket_connections : Cardinality(F) <= MaxFailing}

\* app/main.py 41-42: accept, then websocket_connections[user_id] = websocket
websocket_endpoint(c, user_id) ==
    [c EXCEPT !.wc = @ \cup {user_id}, !.t = IdleLocals("recv")]

\* The runs a task can make from the current state, by what starts them

ConnectRuns(u) ==
    IF task[u].pc = "closed" THEN {websocket_endpoint(Ctx(u, {}), u)} ELSE {}

ReceiveRuns(u, frames) ==
    IF task[u].pc = "recv"
    THEN {handle_signaling_message(Ctx(u, F), u, f) : f \in frames, F \in FailSets}
    ELSE {}

EndRuns(u) ==
    IF task[u].pc = "recv"
    THEN {cleanup_user(Ctx(u, F), u, "cleanup") : F \in FailSets}
    ELSE {}

\* a frame that json.loads rejects, or that is not an object (message_data.get
\* raises), or a join-room without room_id
MalformedRuns(u) ==
    EndRuns(u) \cup
    (IF task[u].pc = "recv"
     THEN {handle_signaling_message(Ctx(u, F), u, f) : f \in BadJoinFrames, F \in FailSets}
     ELSE {})

ResumeRuns(q) ==
    IF task[q].pc = "bcast"
    THEN {BroadcastLoop(Ctx(q, F)) : F \in FailSets}
    ELSE {}

CreateRuns(a) ==
    IF task[a].pc = "idle"
    THEN {create_room(Ctx(a, {}), r) : r \in {x \in RoomIds : ~active_rooms[x].present}}
    ELSE {}

DeleteRuns(a) ==
    IF task[a].pc = "idle"
    THEN {delete_room(Ctx(a, F), r) : r \in RoomIds, F \in FailSets}
    ELSE {}

\* app/main.py 39-42: a client connects as u
Connect(u) == \E c \in ConnectRuns(u) : Commit(c, u)

\* app/main.py 49-52: a frame arrives and is handled
Receive(u, frames) == \E c \in ReceiveRuns(u, frames) : Commit(c, u)

\* app/main.py 50-52, 57-59: a malformed frame raises in json.loads or in the handler
ReceiveMalformed(u) == \E c \in MalformedRuns(u) : Commit(c, u)

\* app/main.py 49, 54-56: receive_text raises WebSocketDisconnect
ReceiveDisconnect(u) == \E c \in EndRuns(u) : Commit(c, u)

\* app/main.py 133: a task suspended in send_text goes on
Resume(q) == \E c \in ResumeRuns(q) : Commit(c, q)

\* POST /rooms
CreateRoom(a) == \E c \in CreateRuns(a) : Commit(c, a)

\* DELETE /rooms/{room_id}
DeleteRoom(a) == \E c \in DeleteRuns(a) : Commit(c, a)

Init ==
    /\ active_rooms = [r \in RoomIds |-> Absent]
    /\ websocket_connections = {}
    /\ user_rooms = [u \in Users |-> None]
    /\ task = [q \in Tasks |-> IdleLocals(IF q \in Users THEN "closed" ELSE "idle")]

\* Two clients, two room ids and the REST endpoints
Pair == {"A", "B"}
PairFrames ==
    JoinFrames(RoomIds) \cup {[type |-> "offer", data |-> "X"]} \cup OtherFrames

Next ==
    \/ \E u \in Pair : Connect(u)
    \/ \E u \in Pair : Receive(u, PairFrames)
    \/ \E u \in Pair : ReceiveDisconnect(u)
    \/ \E u \in Pair : ReceiveMalformed(u)
    \/ \E q \in Tasks : Resume(q)
    \/ \E a \in Admins : CreateRoom(a)
    \/ \E a \in Admins : DeleteRoom(a)

Spec == Init /\ [][Next]_vars

\* Three clients in one room id, without the REST endpoints
RaceSignals ==
    {[type |-> "offer", data |-> "X"], [type |-> "answer", data |-> "Y"],
     [type |-> "ice-candidate", data |-> "X"]}
RaceFrames == JoinFrames({"abc"}) \cup RaceSignals \cup OtherFrames

NextRace ==
    \/ \E u \in Users : Connect(u)
    \/ \E u \in Users : Receive(u, RaceFrames)
    \/ \E u \in Users : ReceiveDisconnect(u)
    \/ \E u \in Users : ReceiveMalformed(u)
    \/ \E q \in Users : Resume(q)

SpecRace == Init /\ [][NextRace]_vars

----------------------------------------------------------------------------
\* The runs that the two specifications can make from the current state

RunsOf(users, frames, admins) ==
    UNION {{[self |-> u, c |-> c] :
              c \in {x \in ConnectRuns(u) \cup ReceiveRuns(u, frames)
                             \cup EndRuns(u) \cup MalformedRuns(u)
                             \cup ResumeRuns(u) : Allowed(x, u)}} :
           u \in users}
    \cup
    UNION {{[self |-> a, c |-> c] :
              c \in {x \in CreateRuns(a) \cup DeleteRuns(a) \cup ResumeRuns(a) :
                        Allowed(x, a)}} :
           a \in admins}

PairRuns == RunsOf(Pair, PairFrames, Admins)
RaceRuns == RunsOf(Users, RaceFrames, {})

\* the calls that return or raise in the runs
Returns(runs) == UNION {{r.c.ev[k] : k \in 1..Len(r.c.ev)} : r \in runs}

RoomsOf(ar, u) == {r \in RoomIds : u \in Range(ar[r].participants)}

----------------------------------------------------------------------------
\* C1: a room id is a key of active_rooms exactly when it has a participant
\* list that is not empty, unless create_room made the room and nobody has
\* joined it yet.  An id that is not a key has no list (active_rooms[id]
\* raises KeyError), so what can fail is a key whose list is empty.
C1_NoEmptyRoom ==
    \A r \in RoomIds :
        active_rooms[r].present =>
            active_rooms[r].participants # <<>> \/ active_rooms[r].fresh

\* the last participant of a room disconnects and the run deletes the room,
\* while the other room is one that create_room made and nobody has joined
C1_Witness ==
    \E e \in Returns(PairRuns) :
        /\ e.op = "cleanup_user" /\ e.err = "none" /\ e.ctx = "cleanup"
        /\ e.room_id # None
        /\ active_rooms[e.room_id].participants = <<e.user>>
        /\ ~e.ar[e.room_id].present
        /\ \E r \in RoomIds \ {e.room_id} :
              e.ar[r].present /\ e.ar[r].fresh /\ e.ar[r].participants = <<>>

\* C2: when cleanup_user(u) returns, u is not in websocket_connections, not
\* in the participant list of any room of active_rooms, and not in user_rooms.
C2_CleanupRemovesUser ==
    \A e \in Returns(PairRuns) :
        (e.op = "cleanup_user" /\ e.err = "none") =>
            /\ e.user \notin e.wc
            /\ RoomsOf(e.ar, e.user) = {}
            /\ e.ur[e.user] = None

\* exactly-once delivery of one call of broadcast_to_room: nothing to the
\* excluded user, and one frame to every other user who was a connected
\* participant during all of the call and to whom no send raised
ExactlyOnce(e) ==
    /\ e.excl \notin Range(e.sent)
    /\ \A p \in e.stayed \ {e.excl} : Count(e.sent, p) = 1

\* C3: every call of broadcast_to_room delivers nothing to exclude_user and
\* delivers exactly once to every other user who is a participant during all
\* of the call, also when other connections join or leave meanwhile.
C3_BroadcastExactlyOnce ==
    \A e \in Returns(RaceRuns) : e.op = "broadcast_to_room" => ExactlyOnce(e)

NoDuplicates ==
    \A r \in RoomIds, u \in Users : Count(active_rooms[r].participants, u) <= 1

\* C4: join-room from a user who is already in the room's list changes neither
\* the list nor user_rooms and sends no frame; no list holds a user twice.
C4_JoinIdempotent ==
    /\ NoDuplicates
    /\ \A u \in Pair, r \in RoomIds, F \in FailSets :
          (task[u].pc = "recv" /\ u \in Range(active_rooms[r].participants)) =>
              LET c == handle_signaling_message(
                           Ctx(u, F), u, [type |-> "join-room", room_id |-> r])
              IN  /\ c.ar = active_rooms
                  /\ c.ur = user_rooms
                  /\ c.wc = websocket_connections
                  /\ c.out = <<>>
                  /\ c.t.pc = "recv"

\* a user listed in a room that also lists another connected user, and that
\* is not the room of its user_rooms entry, sends join-room for it: nothing
\* is sent and nothing changes
C4_Witness ==
    \E u \in Pair, r \in RoomIds :
        /\ task[u].pc = "recv"
        /\ u \in Range(active_rooms[r].participants)
        /\ user_rooms[u] # r
        /\ \E v \in websocket_connections \ {u} :
              v \in Range(active_rooms[r].participants)
        /\ handle_signaling_message(
               Ctx(u, {}), u, [type |-> "join-room", room_id |-> r]).out = <<>>

\* the frame a run of task self is sending or has sent in its broadcast
FrameOf(c, op) ==
    IF c.t.pc = "bcast" THEN c.t.msg
    ELSE LET K == {k \in 1..Len(c.ev) : c.ev[k].op = op}
         IN  c.ev[CHOOSE k \in K : TRUE].msg

\* C5: on a new join of u to r, every other connected participant gets one
\* user-joined frame naming u with r's list in join order including u, and
\* then u gets one room-joined frame with r's list, u included.
C5_JoinFrames ==
    /\ \A x \in RaceRuns :
          \A r \in {"abc"} :
              (/\ task[x.self].pc = "recv"
               /\ x.self \notin Range(active_rooms[r].participants)
               /\ \E F \in FailSets :
                     x.c = handle_signaling_message(
                               Ctx(x.self, F), x.self,
                               [type |-> "join-room", room_id |-> r]))
              => FrameOf(x.c, "broadcast_to_room") =
                     [type |-> "user-joined", user_id |-> x.self,
                      participants |-> Append(active_rooms[r].participants, x.self)]
    /\ \A e \in Returns(RaceRuns) :
          (e.op = "join_room" /\ e.ctx = "join" /\ e.err = "none") =>
              /\ ExactlyOnce(e)
              /\ "participants" \in DOMAIN e.uni
              /\ e.uni.type = "room-joined"
              /\ e.uni.room_id = e.room_id
              /\ e.user \in Range(e.uni.participants)
              /\ e.ar[e.room_id].present => e.uni.participants = e.ar[e.room_id].participants

\* C6: an offer, answer or ice-candidate frame from s, whose room exists, goes
\* once to every other connected participant of that room, with the same type
\* and data and from_user = s; s gets nothing; no dict is changed.
C6_ForwardFrames ==
    /\ \A x \in RaceRuns :
          \A f \in RaceSignals :
              (/\ task[x.self].pc = "recv"
               /\ user_rooms[x.self] # None
               /\ active_rooms[user_rooms[x.self]].present
               /\ \E F \in FailSets :
                     x.c = handle_signaling_message(Ctx(x.self, F), x.self, f))
              => FrameOf(x.c, "broadcast_to_room") =
                     [type |-> f.type, data |-> f.data, from_user |-> x.self]
    /\ \A x \in RaceRuns :
          (task[x.self].ctx = "fwd" \/ \E k \in 1..Len(x.c.ev) : x.c.ev[k].op = "forward")
          => x.c.ar = active_rooms /\ x.c.ur = user_rooms
                /\ x.c.wc = websocket_connections
    /\ \A e \in Returns(RaceRuns) :
          (e.op = "forward" /\ e.err = "none") => ExactlyOnce(e)

\* the object that was under key r when the run began, as the run leaves it
ObjectAfter(c, r) == IF c.del[r].present THEN c.del[r] ELSE c.ar[r]

\* C7: when u, a participant of r, disconnects, every remaining participant
\* gets one user-left frame naming u with r's list after the removal; r stays
\* with one participant less, or is removed if u was its last participant.
C7_DisconnectLeavesRoom ==
    /\ \A u \in Pair :
          \A c \in {x \in EndRuns(u) : Allowed(x, u)} :
              \A r \in RoomsOf(active_rooms, u) :
                  LET was == active_rooms[r].participants
                  IN  /\ u \notin Range(ObjectAfter(c, r).participants)
                      /\ Len(was) > 1 =>
                            /\ c.ar[r].present
                            /\ Len(c.ar[r].participants) = Len(was) - 1
                            /\ FrameOf(c, "broadcast_to_room") =
                                   [type |-> "user-left", user_id |-> u,
                                    participants |-> ListRemove(was, u)]
                      /\ Len(was) = 1 => ~c.ar[r].present
    /\ \A e \in Returns(PairRuns) :
          (e.op = "cleanup_user" /\ e.ctx = "cleanup" /\ e.err = "none") => ExactlyOnce(e)

\* C8: delete_room on a room with participants sends room-closed to every
\* connected participant, then removes every participant from
\* websocket_connections, user_rooms and all lists, and leaves the room id
\* absent from active_rooms, so that get_room answers not-found.
C8_DeleteRoom ==
    /\ \A e \in Returns(PairRuns) :
          (e.op = "broadcast_to_room" /\ e.ctx = "closed_bc") =>
              e.msg = [type |-> "room-closed"] /\ ExactlyOnce(e)
    /\ \A e \in Returns(PairRuns) :
          (e.op = "cleanup_user" /\ e.ctx = "del_cleanup") =>
              /\ e.err = "none"
              /\ e.user \notin e.wc
              /\ e.ur[e.user] = None
              /\ RoomsOf(e.ar, e.user) \subseteq {e.del_id}
    /\ \A e \in Returns(PairRuns) :
          (e.op = "delete_room" /\ e.err # "HTTP404") => ~e.ar[e.del_id].present

\* C9: every user is in the participant list of at most one room.
C9_AtMostOneRoom ==
    \A u \in Users : Cardinality(RoomsOf(active_rooms, u)) <= 1

\* no task is inside a handler
AtRest == \A q \in Tasks : task[q].pc # "bcast"

\* C10: between operations, user_rooms[u] = r exactly when r is a key of
\* active_rooms and u is in r's participant list.
C10_MembershipConsistent ==
    AtRest =>
        \A u \in Users, r \in RoomIds :
            user_rooms[u] = r <=>
                (active_rooms[r].present /\ u \in Range(active_rooms[r].participants))

----------------------------------------------------------------------------
\* the sender u has no current room
NoCurrentRoom(u) == user_rooms[u] = None \/ ~active_rooms[user_rooms[u]].present

\* C11: an offer, answer or ice-candidate frame from a sender without a
\* current room (no user_rooms entry, or one naming a room that is not in
\* active_rooms) is dropped: no frame is sent, the three dicts are unchanged
\* and the sender goes on receiving.
C11_DroppedSignaling ==
    \A u \in Pair, f \in SignalFrames, F \in FailSets :
        (task[u].pc = "recv" /\ NoCurrentRoom(u)) =>
            LET c == handle_signaling_message(Ctx(u, F), u, f)
            IN  /\ c.out = <<>>
                /\ c.ar = active_rooms
                /\ c.ur = user_rooms
                /\ c.wc = websocket_connections
                /\ c.t.pc = "recv"

\* a connected sender whose user_rooms entry names a room that is gone sends
\* a signaling frame while the other user sits connected in a room
C11_Witness ==
    \E u \in Pair :
        /\ task[u].pc = "recv"
        /\ u \in websocket_connections
        /\ user_rooms[u] # None
        /\ ~active_rooms[user_rooms[u]].present
        /\ \E v \in websocket_connections \ {u} : RoomsOf(active_rooms, v) # {}
        /\ \E k \in 1..Len(handle_signaling_message(
                              Ctx(u, {}), u, [type |-> "offer", data |-> "X"]).ev) :
              handle_signaling_message(
                  Ctx(u, {}), u, [type |-> "offer", data |-> "X"]).ev[k].err = "dropped"

----------------------------------------------------------------------------
\* the runs of u that are inside a join or a forward: a frame arrives, or the
\* broadcast of a join or of a forward goes on
HandlerRuns(u) ==
    ReceiveRuns(u, RaceFrames) \cup
    (IF task[u].ctx \in {"join", "fwd"} THEN ResumeRuns(u) ELSE {})

\* C12: a send that fails is swallowed.  When the sends to the users F raise
\* in a broadcast, the broadcast goes on to the next connected participant
\* with the same frame; and no failed send, a failed room-joined send to the
\* joiner included, ends the join or forward in progress or takes the
\* sender's connection down.
C12_SendFailureSwallowed ==
    /\ \A q \in Users, F \in FailSets :
          task[q].pc = "bcast" =>
              LET t == task[q]
                  plist == Participants(active_rooms, t)
                  rest == ({plist[m] : m \in t.i..Len(plist)}
                              \cap websocket_connections) \ ({t.excl} \cup F)
                  c == BroadcastLoop(Ctx(q, F))
              IN  rest # {} =>
                      /\ Len(c.out) >= 1
                      /\ c.out[1].to \in rest
                      /\ c.out[1].frame = t.msg
    /\ \A u \in Users : \A c \in HandlerRuns(u) :
          u \in websocket_connections =>
              /\ u \in c.wc
              /\ c.t.pc # "closed"
              /\ \A k \in 1..Len(c.ev) : c.ev[k].err # "send"

----------------------------------------------------------------------------
\* the runs of u that handle a malformed frame: the frame arrives, or the
\* cleanup_user that answers it goes on
MalformedHandling(u) ==
    {c \in MalformedRuns(u) : Allowed(c, u)} \cup
    (IF task[u].ctx = "cleanup" THEN ResumeRuns(u) ELSE {})

\* C13: a malformed frame (not JSON, not an object, join-room without
\* room_id) leaves the sender either unchanged or absent from
\* websocket_connections, user_rooms and every participant list; it creates
\* no room, and it changes no other user's connection entry, user_rooms
\* entry or room memberships.
C13_MalformedFrame ==
    /\ \A u \in Pair : \A c \in MalformedHandling(u) :
          /\ \A k \in 1..Len(c.ev) :
                c.ev[k].op = "cleanup_user" =>
                    /\ c.ev[k].err = "none"
                    /\ u \notin c.ev[k].wc
                    /\ c.ev[k].ur[u] = None
                    /\ RoomsOf(c.ev[k].ar, u) = {}
          /\ \A r \in RoomIds : c.ar[r].present => active_rooms[r].present
          /\ \A v \in Users \ {u} :
                /\ v \in c.wc <=> v \in websocket_connections
                /\ c.ur[v] = user_rooms[v]
                /\ RoomsOf(c.ar, v) = RoomsOf(active_rooms, v)

----------------------------------------------------------------------------
\* C14: join, leave and the empty-check-and-delete of cleanup_user are atomic
\* for one room: whatever the interleaving of disconnects and joins, no run
\* deletes from active_rooms a room whose list holds a participant, and no
\* run takes another user's membership away.
C14_AtomicRoomMutations ==
    \A x \in RaceRuns : \A r \in RoomIds :
        /\ x.c.del[r].present => x.c.del[r].participants = <<>>
        /\ \A v \in Users \ {x.self} :
              (user_rooms[v] = r /\ v \in Range(active_rooms[r].participants)) =>
                  /\ x.c.ar[r].present
                  /\ v \in Range(x.c.ar[r].participants)
                  /\ x.c.ur[v] = r

\* C15: cleanup_user never raises, and once a connection has terminated and
\* its cleanup has ended, the user has no user_rooms entry.
C15_CleanupCompletes ==
    /\ \A e \in Returns(RaceRuns) : e.op = "cleanup_user" => e.err = "none"
    /\ \A u \in Users : task[u].pc = "closed" => user_rooms[u] = None

----------------------------------------------------------------------------
\* cleanup_user(user_id) called with the dicts ar, wc, ur
CleanupFrom(self, F, ar, wc, ur, user_id) ==
    cleanup_user([Ctx(self, F) EXCEPT !.ar = ar, !.wc = wc, !.ur = ur,
                                      !.t = IdleLocals("recv")],
                 user_id, "cleanup")

\* the runs of delete_room: it is called, or it goes on after a send
CleanupRuns ==
    UNION {{[self |-> a, c |-> c] : c \in DeleteRuns(a) \cup ResumeRuns(a)} : a \in Admins}

\* C16: cleanup_user for a user without a connection entry and without a
\* user_rooms entry changes no dict and sends no frame: so it is in every
\* state, the states a returned cleanup_user leaves behind included; and
\* cleanup_user run again for a user right after delete_room's cleanup_user
\* for it has returned (the user not having connected again meanwhile)
\* changes no dict and sends no second user-left frame.
C16_CleanupIdempotent ==
    /\ \A u \in Pair, F \in FailSets :
          (u \notin websocket_connections /\ user_rooms[u] = None) =>
              LET c == CleanupFrom(u, F, active_rooms, websocket_connections,
                                   user_rooms, u)
              IN  /\ c.ar = active_rooms
                  /\ c.wc = websocket_connections
                  /\ c.ur = user_rooms
                  /\ c.out = <<>>
    /\ \A u \in Pair : task[u].pc = "closed" /\ user_rooms[u] = None
                           => u \notin websocket_connections
    /\ \A x \in CleanupRuns : \A k \in 1..Len(x.c.ev) :
          LET e == x.c.ev[k]
          IN  (e.op = "cleanup_user" /\ e.err = "none" /\ e.user \notin e.wc) =>
                  \A F \in FailSets :
                      LET c == CleanupFrom(x.self, F, e.ar, e.wc, e.ur, e.user)
                      IN  /\ c.ar = e.ar
                          /\ c.wc = e.wc
                          /\ c.ur = e.ur
                          /\ c.out = <<>>

\* delete_room has cleaned up a user whose receive loop still runs, another
\* user is connected and in a room, and the first user now disconnects:
\* cleanup_user runs for it a second time and sends nothing
C16_Witness ==
    \E u \in Pair :
        /\ task[u].pc = "recv"
        /\ u \notin websocket_connections
        /\ user_rooms[u] = None
        /\ \E v \in websocket_connections \ {u} : RoomsOf(active_rooms, v) # {}
        /\ \E c \in EndRuns(u) : c.out = <<>> /\ c.t.pc = "closed"

----------------------------------------------------------------------------
\* C17: delete_room raises only HTTP 404, and only when room_id is not in
\* active_rooms when it is called; called for a room that is there, it
\* returns with the room erased.
C17_DeleteRoomOnlyNotFound ==
    /\ \A e \in Returns(PairRuns) :
          e.op = "delete_room" =>
              /\ e.err \in {"none", "HTTP404"}
              /\ e.err = "none" => ~e.ar[e.del_id].present
    /\ \A a \in Admins, r \in RoomIds, F \in FailSets :
          (task[a].pc = "idle" /\ active_rooms[r].present) =>
              LET c == delete_room(Ctx(a, F), r)
              IN  \A k \in 1..Len(c.ev) : c.ev[k].err # "HTTP404"

----------------------------------------------------------------------------
\* u is inside its join of room r: it is in r's list, the user-joined
\* broadcast is under way and the room-joined frame has not been sent
Joining(u, r) ==
    task[u].pc = "bcast" /\ task[u].ctx = "join" /\ task[u].room_id = r

\* C18: room-joined is the first frame about r that u gets: while u's join of
\* r has not yet sent room-joined, no broadcast in r (user-joined, user-left,
\* offer, answer, ice-candidate) delivers a frame to u.
C18_RoomJoinedFirst ==
    \A x \in RaceRuns : \A k \in 1..Len(x.c.out) :
        LET u == x.c.out[k].to
        IN  u # x.self => ~Joining(u, x.c.t.room_id)

----------------------------------------------------------------------------
\* C19: an offer, answer or ice-candidate frame is delivered only to users
\* whose user_rooms entry is the room the sender forwards to (the sender's
\* user_rooms entry when the frame was handled).
C19_RoomIsolation ==
    \A x \in PairRuns : \A k \in 1..Len(x.c.out) :
        LET o == x.c.out[k]
        IN  o.frame.type \in SignalTypes =>
                /\ o.frame.from_user = x.self
                /\ user_rooms[o.to] = x.c.t.room_id

\* the receive loop of u is running: u waits in receive_text or is inside the
\* handler of a frame
LoopRunning(u) ==
    \/ task[u].pc = "recv"
    \/ task[u].pc = "bcast" /\ task[u].ctx \in {"join", "fwd"}

\* C20: every user whose receive loop is running is a key of
\* websocket_connections.
C20_OpenConnectionRegistered ==
    \A u \in Pair : LoopRunning(u) => u \in websocket_connections

====
